---- MODULE Spec2Model ----
(***************************************************************************)
(* Job admission guard (IdempotencyGuard) of the agent workflow server,    *)
(* together with its callers.  A caller is one flow of control that uses   *)
(* the guard the way the webhook handler and the guard's documented usage  *)
(* do: `await isDuplicate(id)`, and when admitted, run the job and then    *)
(* `await markComplete(id)` or `await markFailed(id, error)`.              *)
(*                                                                         *)
(* JavaScript runs an async function synchronously up to its first await   *)
(* that suspends, and drains all continuations of already settled promises *)
(* before the event loop takes the next task.  The guard's methods contain *)
(* no real suspension: the store read, the decision and the store write of *)
(* isDuplicate run in one synchronous block (one action here), and the     *)
(* caller's continuation is a pending microtask (pc = "returning").  Time  *)
(* passing, cleanup and the finalisation of a job belong to later tasks of *)
(* the event loop and wait for the microtask queue to be empty.            *)
(*                                                                         *)
(* The module has five next-state relations over the same variables:       *)
(*   Spec         flows that follow the guard's protocol, with cleanup     *)
(*   SpecApi      one sequential flow using all methods of the guard       *)
(*   SpecHandler  requests to the webhook handler, with the agent run      *)
(*                reduced to what it resolves to                           *)
(*   SpecAgent    one run of the agent loop (runAgent)                     *)
(*   SpecSelector calls of the skill policy (selectSkills and              *)
(*                loadSkillContent) for one event context                  *)
(* Each leaves the variables of the others at their initial values.        *)
(* SpecHandlerFair and SpecAgentFair add weak fairness of the steps the    *)
(* event loop is bound to take, for the progress properties.               *)
(***************************************************************************)
EXTENDS Integers, FiniteSets, Sequences, TLC

\* ---- bounds of the model ----
\* MAX_ITERATIONS of the agent loop (15, and 10 in the older variants)
MaxIterations == 3
\* the clock stops at MaxTime
MaxTime == 4
\* config.retryDelay and config.ttl, in clock units of the model
RetryDelay == 1
Ttl == 2
\* config.maxAttempts
MaxAttempts == 3

\* concurrent flows of control that use the guard
Callers == {"c1", "c2"}
\* delivery ids (x-github-delivery)
Ids == {"d1", "d2"}
\* error.message of the error given to markFailed
Errors == {"E1", "E2"}
Times == 0..MaxTime
\* the caller handles no delivery
NoJob == "none"

\* an optional field that is not set (completedAt?: Date, error?: string)
NoTime == -1
NoError == "undefined"
\* no cleanup() call has been awaited yet
NoCount == -1
\* what jobStore.get returns for a key that is not in the Map
Undefined == [id |-> "undefined"]

\* ---- the agent run: provider responses, turns, steps, result ----
\* some names of toolRegistry, and a name that is not in it
ToolRegistry == {"github_getIssue", "fs_readFile", "http_get"}
UnknownToolName == "no_such_tool"

\* the tool names a provider response may request, in order
ToolCallLists ==
  {<<>>,
   <<"github_getIssue">>,
   <<"github_getIssue", "fs_readFile", "http_get">>,
   <<"fs_readFile", UnknownToolName, "http_get">>}

\* choice.finish_reason
FinishReasons == {"stop", "tool_calls", "length"}

\* what callLLM resolves to (the text content plays no part in the control)
Responses == [names : ToolCallLists, finishReason : FinishReasons]

\* no response is being processed
NoReason == "none"

\* the provider gives every tool call its own id: here the number of the
\* provider invocation and the position of the call in the response
NoId == <<0, 0>>
WithIds(names, n) == [i \in 1..Len(names) |-> [id |-> <<n, i>>, name |-> names[i]]]

\* the content of a tool-result turn
ResultText == "result"
UnknownToolText == "Error: Unknown tool"
ThrownText == "Error: message"

UserTurn ==
  [role |-> "user", tool_calls |-> <<>>, tool_call_id |-> NoId, content |-> "context"]
AssistantTurn(calls) ==
  [role |-> "assistant", tool_calls |-> calls, tool_call_id |-> NoId, content |-> "text"]
ToolTurn(id, text) ==
  [role |-> "tool", tool_calls |-> <<>>, tool_call_id |-> id, content |-> text]

\* the entries of completedSteps
Selected(n) == [text |-> "Selected skills", arg |-> ToString(n)]
Loaded == [text |-> "Loaded skill content", arg |-> ""]
Executed(name) == [text |-> "Executed tool", arg |-> name]
TaskCompleted == [text |-> "Task completed", arg |-> ""]
MaxReached == [text |-> "Max iterations reached", arg |-> ""]

\* AgentResult; NoResult while the run has not returned
NoResult == [success |-> FALSE, error |-> "unset"]
Success == [success |-> TRUE, error |-> NoError]
Failure == [success |-> FALSE, error |-> "message"]

\* ---- the skill policy: strings, skills, registries, contexts ----
\* A string that the policy lower-cases or searches is a sequence of
\* characters; names, descriptions and event types are only compared whole.
bug == <<"b", "u", "g">>
fix == <<"f", "i", "x">>
sec == <<"s", "e", "c">>
Sec == <<"S", "e", "c">>
BUG == <<"B", "U", "G">>
bugfix == <<"b", "u", "g", "f", "i", "x">>
docs == <<"d", "o", "c">>
src == <<"s", "r", "c">>
Empty == <<>>

\* String.prototype.toLowerCase on the characters in use
LowerChar(ch) ==
  CASE ch = "B" -> "b"
    [] ch = "U" -> "u"
    [] ch = "G" -> "g"
    [] ch = "S" -> "s"
    [] OTHER -> ch

toLowerCase(s) == [i \in 1..Len(s) |-> LowerChar(s[i])]

\* String.prototype.includes: t occurs in s as a contiguous substring
includes(s, t) ==
  \E i \in 1..(Len(s) - Len(t) + 1) : SubSeq(s, i, i + Len(t) - 1) = t

\* Array.prototype.join(' ')
RECURSIVE join(_)
join(parts) ==
  IF Len(parts) = 0 THEN <<>>
  ELSE IF Len(parts) = 1 THEN parts[1]
  ELSE parts[1] \o <<" ">> \o join(Tail(parts))

Trigger(type, value) == [type |-> type, value |-> value]
Skill(name, triggers, priority) ==
  [name |-> name, description |-> "description", triggers |-> triggers,
   priority |-> priority]

\* the registry of the policy: bugfix 10, code review 8, security 15
skillRegistry ==
  << Skill("bugfix-skill",
           << Trigger("label", <<bug, bugfix, fix>>),
              Trigger("keyword", <<bug, fix>>) >>, 10),
     Skill("code-review-skill",
           << Trigger("event_type", <<"pull_request">>),
              Trigger("path_pattern", <<src>>) >>, 8),
     Skill("security-skill",
           << Trigger("label", <<Sec>>),
              Trigger("keyword", <<Sec>>) >>, 15) >>

\* a registry whose skills all answer to the same label, and a fourth skill
\* that answers to the event type: four skills can match one context
TiedRegistry ==
  << Skill("first-skill", << Trigger("label", <<bug>>) >>, 10),
     Skill("second-skill", << Trigger("label", <<bug>>) >>, 15),
     Skill("third-skill", << Trigger("label", <<bug>>) >>, 10),
     Skill("fourth-skill", << Trigger("event_type", <<"issues", "issue_comment">>) >>, 5) >>

Registries == {skillRegistry, TiedRegistry}

EventTypes == {"issues", "pull_request"}
LabelLists ==
  { <<>>, <<BUG, bug>>, <<bug, sec>>, <<bugfix, docs>> }
Titles == { Empty, BUG, fix \o <<" ">> \o bug }
Bodies == { Empty, Sec }

\* AgentContext as far as the policy reads it
Contexts ==
  [eventType : EventTypes, labels : LabelLists, title : Titles, body : Bodies]

NoContext ==
  [eventType |-> "none", labels |-> <<>>, title |-> Empty, body |-> Empty]

\* selectSkills(context, maxSkills = 3)
DefaultMaxSkills == 3
MaxSkillsArgs == 0..(DefaultMaxSkills + 1)
NoMax == -1

\* the number of selectSkills calls the model follows
MaxCalls == 2

\* what reading a file of a skill's directory gives
Missing == "ENOENT"
FileContents == {Missing, "text"}
NoLoad ==
  [skill |-> "none", md |-> Missing, ex |-> Missing, thrown |-> FALSE,
   content |-> <<>>]

VARIABLES
  jobStore,   \* the process-wide Map<string, JobRecord>: a function on the keys present
  now,        \* Date.now()
  pc,         \* position of each caller
  job,        \* delivery id the caller is handling
  seen,       \* the record the caller's pending guard call read from the store
  ret,        \* the value the caller's isDuplicate call resolves to
  evictedRunning, \* history: the ids whose record cleanup deleted in status processing
  peak,       \* history: the highest attempt count ever stored for a delivery id
  admissions, \* history: how often isDuplicate returned false for a delivery id
              \* since cleanup last evicted its record
  cleaned,    \* the count the last awaited cleanup() call resolved to
  response,   \* webhook handler: the status field of the HTTP response it sent
  runs,       \* webhook handler: how often it has called runAgent for its request
  result,     \* webhook handler: what its runAgent call resolved to
  finalized,  \* webhook handler: the finalisation it called on the guard
  apc,            \* runAgent: where the run is suspended
  iteration,      \* runAgent: the loop counter
  messages,       \* runAgent: the conversation
  completedSteps, \* runAgent: the step descriptions
  toolCalls,      \* runAgent: response.toolCalls of the response being processed
  toolIndex,      \* runAgent: position in toolCalls of the call being awaited
  agentResult,    \* runAgent: the AgentResult the run resolved to
  llmCalls,       \* history: the number of provider invocations of the run
  outstanding,    \* runAgent: the calls the run has started and not yet seen settle
  finishReason,   \* runAgent: response.finishReason of the response being processed
  registry,       \* skill policy: the module's skillRegistry array
  context,        \* skill policy: the AgentContext the calls are made with
  maxSkills,      \* skill policy: the maxSkills of the last selectSkills call
  matchScores,    \* skill policy: evaluateSkillMatch of each registry entry in that call
  selected,       \* skill policy: the Skill[] that call returned
  selectCalls,    \* skill policy: the number of selectSkills calls made
  loaded,         \* skill policy: the last loadSkillContent call and its outcome
  previous        \* history: maxSkills and result of the selectSkills call before the last

\* the variables of the guard and of the flows that use it
guardVars == <<jobStore, now, pc, job, seen, ret, evictedRunning, peak, admissions>>

\* the variables of the webhook handler's requests
handlerVars == <<response, runs, result, finalized>>

\* the variables of one agent run
agentVars == <<apc, iteration, messages, completedSteps, toolCalls, toolIndex,
               agentResult, llmCalls, outstanding, finishReason>>

\* the variables of the skill policy
selectorVars == <<registry, context, maxSkills, matchScores, selected,
                  selectCalls, loaded, previous>>

vars == <<jobStore, now, pc, job, seen, ret, evictedRunning, peak, admissions,
          cleaned,
          response, runs, result, finalized,
          apc, iteration, messages, completedSteps, toolCalls, toolIndex,
          agentResult, llmCalls, outstanding, finishReason,
          registry, context, maxSkills, matchScores, selected, selectCalls,
          loaded, previous>>

\* ---- the Map operations ----
Has(store, id) == id \in DOMAIN store

Get(store, id) == IF Has(store, id) THEN store[id] ELSE Undefined

Put(store, id, rec) ==
  [k \in (DOMAIN store) \cup {id} |-> IF k = id THEN rec ELSE store[k]]

\* ---- IdempotencyGuard ----
\* faulty variant: the record is created in status pending, as the method's comment says
createRecord_Pending(store, id, t) ==
  Put(store, id, [id |-> id, status |-> "pending", createdAt |-> t,
                  updatedAt |-> t, completedAt |-> NoTime, error |-> NoError,
                  attempts |-> 1])

\* faulty variant: the attempt counter of a new record starts at 0
createRecord_ZeroAttempts(store, id, t) ==
  Put(store, id, [id |-> id, status |-> "processing", createdAt |-> t,
                  updatedAt |-> t, completedAt |-> NoTime, error |-> NoError,
                  attempts |-> 0])

createRecord(store, id, t) ==
  Put(store, id, [id |-> id, status |-> "processing", createdAt |-> t,
                  updatedAt |-> t, completedAt |-> NoTime, error |-> NoError,
                  attempts |-> 1])

\* faulty variant: the write of the transition is lost
markProcessing_NoWrite(store, id, t) == store

\* faulty variant: the transition forgets to count the attempt
markProcessing_NoIncrement(store, id, t) ==
  IF Has(store, id)
  THEN Put(store, id, [store[id] EXCEPT !.status = "processing",
                                        !.updatedAt = t])
  ELSE store

markProcessing(store, id, t) ==
  IF Has(store, id)
  THEN Put(store, id, [store[id] EXCEPT !.status = "processing",
                                        !.updatedAt = t,
                                        !.attempts = @ + 1])
  ELSE store

\* faulty variant: a record in status processing is not recognised as in progress
isDuplicateBranch_NoProcessingCheck(record, t) ==
  IF record = Undefined THEN "new"
  ELSE IF record.status = "completed" THEN "completed"
  ELSE IF record.status = "failed"
       THEN IF record.attempts >= MaxAttempts THEN "exhausted"
            ELSE IF t - record.updatedAt < RetryDelay THEN "cooldown"
            ELSE "retry"
  ELSE "pending"

\* faulty variant: the attempt budget is compared with > instead of >=
isDuplicateBranch_OffByOneAttempts(record, t) ==
  IF record = Undefined THEN "new"
  ELSE IF record.status = "completed" THEN "completed"
  ELSE IF record.status = "processing" THEN "processing"
  ELSE IF record.status = "failed"
       THEN IF record.attempts > MaxAttempts THEN "exhausted"
            ELSE IF t - record.updatedAt < RetryDelay THEN "cooldown"
            ELSE "retry"
  ELSE "pending"

\* faulty variant: the cooldown comparison is inverted
isDuplicateBranch_CooldownInverted(record, t) ==
  IF record = Undefined THEN "new"
  ELSE IF record.status = "completed" THEN "completed"
  ELSE IF record.status = "processing" THEN "processing"
  ELSE IF record.status = "failed"
       THEN IF record.attempts >= MaxAttempts THEN "exhausted"
            ELSE IF t - record.updatedAt >= RetryDelay THEN "cooldown"
            ELSE "retry"
  ELSE "pending"

\* faulty variant: the attempt budget is not looked at
isDuplicateBranch_NoAttemptCheck(record, t) ==
  IF record = Undefined THEN "new"
  ELSE IF record.status = "completed" THEN "completed"
  ELSE IF record.status = "processing" THEN "processing"
  ELSE IF record.status = "failed"
       THEN IF t - record.updatedAt < RetryDelay THEN "cooldown"
            ELSE "retry"
  ELSE "pending"

\* faulty variant: a retry at exactly retryDelay is still in cooldown
isDuplicateBranch_CooldownStrict(record, t) ==
  IF record = Undefined THEN "new"
  ELSE IF record.status = "completed" THEN "completed"
  ELSE IF record.status = "processing" THEN "processing"
  ELSE IF record.status = "failed"
       THEN IF record.attempts >= MaxAttempts THEN "exhausted"
            ELSE IF t - record.updatedAt <= RetryDelay THEN "cooldown"
            ELSE "retry"
  ELSE "pending"

\* the return statement isDuplicate reaches for the record it read
isDuplicateBranch(record, t) ==
  IF record = Undefined THEN "new"
  ELSE IF record.status = "completed" THEN "completed"
  ELSE IF record.status = "processing" THEN "processing"
  ELSE IF record.status = "failed"
       THEN IF record.attempts >= MaxAttempts THEN "exhausted"
            ELSE IF t - record.updatedAt < RetryDelay THEN "cooldown"
            ELSE "retry"
  ELSE "pending"

isDuplicateResult(record, t) ==
  isDuplicateBranch(record, t) \notin {"new", "retry", "pending"}

\* faulty variant: a rejected call on a running record still counts an attempt
isDuplicateStore_CountsRejected(store, id, t) ==
  LET b == isDuplicateBranch(Get(store, id), t)
  IN  IF b = "new" THEN createRecord(store, id, t)
      ELSE IF b \in {"retry", "pending", "processing"} THEN markProcessing(store, id, t)
      ELSE store

isDuplicateStore(store, id, t) ==
  LET b == isDuplicateBranch(Get(store, id), t)
  IN  IF b = "new" THEN createRecord(store, id, t)
      ELSE IF b \in {"retry", "pending"} THEN markProcessing(store, id, t)
      ELSE store

\* faulty variant: the completion timestamp is not set
markCompleteStore_NoCompletedAt(store, id, t) ==
  IF Has(store, id)
  THEN Put(store, id, [store[id] EXCEPT !.status = "completed",
                                        !.updatedAt = t])
  ELSE store

markCompleteStore(store, id, t) ==
  IF Has(store, id)
  THEN Put(store, id, [store[id] EXCEPT !.status = "completed",
                                        !.updatedAt = t,
                                        !.completedAt = t])
  ELSE store

\* faulty variant: a record is created for an id that has none
markFailedStore_Upsert(store, id, t, e) ==
  Put(store, id,
      IF Has(store, id)
      THEN [store[id] EXCEPT !.status = "failed", !.updatedAt = t, !.error = e]
      ELSE [id |-> id, status |-> "failed", createdAt |-> t, updatedAt |-> t,
            completedAt |-> NoTime, error |-> e, attempts |-> 1])

\* faulty variant: the error's message is not recorded
markFailedStore_NoError(store, id, t, e) ==
  IF Has(store, id)
  THEN Put(store, id, [store[id] EXCEPT !.status = "failed",
                                        !.updatedAt = t])
  ELSE store

\* faulty variant: a failed job is put back into status pending
markFailedStore_Requeues(store, id, t, e) ==
  IF Has(store, id)
  THEN Put(store, id, [store[id] EXCEPT !.status = "pending",
                                        !.updatedAt = t,
                                        !.error = e])
  ELSE store

markFailedStore(store, id, t, e) ==
  IF Has(store, id)
  THEN Put(store, id, [store[id] EXCEPT !.status = "failed",
                                        !.updatedAt = t,
                                        !.error = e])
  ELSE store

getStatus(store, id) == Get(store, id)

\* faulty variant: the age is taken from the last update of the record
Expired_ByUpdatedAt(rec, t) == rec.updatedAt < t - Ttl

Expired(rec, t) == rec.createdAt < t - Ttl

cleanupStore(store, t) ==
  [k \in {i \in DOMAIN store : ~Expired(store[i], t)} |-> store[k]]

cleanupCount(store, t) ==
  Cardinality({i \in DOMAIN store : Expired(store[i], t)})

\* ---- the system ----
Init ==
  /\ jobStore = [k \in {} |-> Undefined]
  /\ now = 0
  /\ pc = [c \in Callers |-> "idle"]
  /\ job = [c \in Callers |-> NoJob]
  /\ seen = [c \in Callers |-> Undefined]
  /\ ret = [c \in Callers |-> FALSE]
  /\ evictedRunning = {}
  /\ peak = [id \in Ids |-> 0]
  /\ admissions = [id \in Ids |-> 0]
  /\ cleaned = NoCount
  /\ response = [c \in Callers |-> "none"]
  /\ runs = [c \in Callers |-> 0]
  /\ result = [c \in Callers |-> "none"]
  /\ finalized = [c \in Callers |-> "none"]
  /\ apc = "start"
  /\ iteration = 0
  /\ messages = <<>>
  /\ completedSteps = <<>>
  /\ toolCalls = <<>>
  /\ toolIndex = 0
  /\ agentResult = NoResult
  /\ llmCalls = 0
  /\ outstanding = {}
  /\ finishReason = NoReason
  /\ registry = skillRegistry
  /\ context = NoContext
  /\ maxSkills = NoMax
  /\ matchScores = <<>>
  /\ selected = <<>>
  /\ selectCalls = 0
  /\ loaded = NoLoad
  /\ previous = [maxSkills |-> NoMax, skills |-> <<>>]

\* no continuation of a settled promise is pending
Quiescent == \A c \in Callers : pc[c] \notin {"returning", "status"}

Max(a, b) == IF a >= b THEN a ELSE b

\* faulty variant: every guard instance has a Map of its own, empty when the
\* instance is created for the request
instanceStore_Own(store, c) == [k \in {} |-> Undefined]

\* the Map the guard instance of caller c works on: the module's one jobStore,
\* whichever instance it is
instanceStore(store, c) == store

\* a caller calls isDuplicate(id) on its guard instance: the synchronous
\* block of the call
IsDuplicate(c, id) ==
  /\ pc[c] = "idle"
  /\ pc' = [pc EXCEPT ![c] = "returning"]
  /\ job' = [job EXCEPT ![c] = id]
  /\ seen' = [seen EXCEPT ![c] = Get(instanceStore(jobStore, c), id)]
  /\ ret' = [ret EXCEPT ![c] =
              isDuplicateResult(Get(instanceStore(jobStore, c), id), now)]
  /\ jobStore' = isDuplicateStore(instanceStore(jobStore, c), id, now)
  /\ peak' = [peak EXCEPT ![id] =
               IF Has(jobStore', id) THEN Max(@, jobStore'[id].attempts) ELSE @]
  /\ admissions' = [admissions EXCEPT ![id] = IF ret'[c] THEN @ ELSE @ + 1]
  /\ UNCHANGED <<now, evictedRunning, cleaned>>
  /\ UNCHANGED <<handlerVars, agentVars, selectorVars>>

\* the caller's `await guard.isDuplicate(id)` resumes with true: skip the job
ReturnDuplicate(c) ==
  /\ pc[c] = "returning"
  /\ ret[c]
  /\ pc' = [pc EXCEPT ![c] = "idle"]
  /\ job' = [job EXCEPT ![c] = NoJob]
  /\ seen' = [seen EXCEPT ![c] = Undefined]
  /\ ret' = [ret EXCEPT ![c] = FALSE]
  /\ UNCHANGED <<jobStore, now, evictedRunning, peak, admissions, cleaned>>
  /\ UNCHANGED <<handlerVars, agentVars, selectorVars>>

\* the caller's `await guard.isDuplicate(id)` resumes with false: run the job
ReturnAdmitted(c) ==
  /\ pc[c] = "returning"
  /\ ~ret[c]
  /\ pc' = [pc EXCEPT ![c] = "admitted"]
  /\ seen' = [seen EXCEPT ![c] = Undefined]
  /\ UNCHANGED <<jobStore, now, job, ret, evictedRunning, peak, admissions, cleaned>>
  /\ UNCHANGED <<handlerVars, agentVars, selectorVars>>

\* the admitted caller's job ended well: guard.markComplete(id)
MarkComplete(c) ==
  /\ Quiescent
  /\ pc[c] = "admitted"
  /\ jobStore' = markCompleteStore(jobStore, job[c], now)
  /\ pc' = [pc EXCEPT ![c] = "idle"]
  /\ job' = [job EXCEPT ![c] = NoJob]
  /\ UNCHANGED <<now, seen, ret, evictedRunning, peak, admissions, cleaned>>
  /\ UNCHANGED <<handlerVars, agentVars, selectorVars>>

\* the admitted caller's job threw: guard.markFailed(id, error)
MarkFailed(c, e) ==
  /\ Quiescent
  /\ pc[c] = "admitted"
  /\ jobStore' = markFailedStore(jobStore, job[c], now, e)
  /\ pc' = [pc EXCEPT ![c] = "idle"]
  /\ job' = [job EXCEPT ![c] = NoJob]
  /\ UNCHANGED <<now, seen, ret, evictedRunning, peak, admissions, cleaned>>
  /\ UNCHANGED <<handlerVars, agentVars, selectorVars>>

\* a caller calls getStatus(id): a read of the store
GetStatus(c, id) ==
  /\ pc[c] = "idle"
  /\ pc' = [pc EXCEPT ![c] = "status"]
  /\ job' = [job EXCEPT ![c] = id]
  /\ seen' = [seen EXCEPT ![c] = getStatus(jobStore, id)]
  /\ UNCHANGED <<jobStore, now, ret, evictedRunning, peak, admissions, cleaned>>
  /\ UNCHANGED <<handlerVars, agentVars, selectorVars>>

\* the caller's `await guard.getStatus(id)` resumes with the record read
ReturnStatus(c) ==
  /\ pc[c] = "status"
  /\ pc' = [pc EXCEPT ![c] = "idle"]
  /\ job' = [job EXCEPT ![c] = NoJob]
  /\ seen' = [seen EXCEPT ![c] = Undefined]
  /\ UNCHANGED <<jobStore, now, ret, evictedRunning, peak, admissions, cleaned>>
  /\ UNCHANGED <<handlerVars, agentVars, selectorVars>>

\* guard.cleanup(), called periodically
Cleanup ==
  /\ Quiescent
  /\ jobStore' = cleanupStore(jobStore, now)
  /\ admissions' = [id \in Ids |-> IF Has(jobStore, id) /\ ~Has(jobStore', id)
                                    THEN 0 ELSE admissions[id]]
  /\ evictedRunning' = evictedRunning \cup
       {id \in DOMAIN jobStore : ~Has(jobStore', id) /\ jobStore[id].status = "processing"}
  /\ UNCHANGED <<now, pc, job, seen, ret, peak, cleaned>>
  /\ UNCHANGED <<handlerVars, agentVars, selectorVars>>

\* a flow awaits guard.cleanup() and keeps the count it resolves to
CleanupAwaited ==
  /\ Quiescent
  /\ jobStore' = cleanupStore(jobStore, now)
  /\ cleaned' = cleanupCount(jobStore, now)
  /\ admissions' = [id \in Ids |-> IF Has(jobStore, id) /\ ~Has(jobStore', id)
                                    THEN 0 ELSE admissions[id]]
  /\ evictedRunning' = evictedRunning \cup
       {id \in DOMAIN jobStore : ~Has(jobStore', id) /\ jobStore[id].status = "processing"}
  /\ UNCHANGED <<now, pc, job, seen, ret, peak>>
  /\ UNCHANGED <<handlerVars, agentVars, selectorVars>>

\* the clock advances between two tasks of the event loop
Tick ==
  /\ Quiescent
  /\ now < MaxTime
  /\ now' = now + 1
  /\ UNCHANGED <<jobStore, pc, job, seen, ret, evictedRunning, peak, admissions, cleaned>>
  /\ UNCHANGED <<handlerVars, agentVars, selectorVars>>

Next ==
  \/ \E c \in Callers, id \in Ids : IsDuplicate(c, id)
  \/ \E c \in Callers : ReturnDuplicate(c)
  \/ \E c \in Callers : ReturnAdmitted(c)
  \/ \E c \in Callers : MarkComplete(c)
  \/ \E c \in Callers, e \in Errors : MarkFailed(c, e)
  \/ Cleanup
  \/ Tick

Spec == Init /\ [][Next]_vars

\* ---- the guard's whole interface, used by one sequential flow ----
\* the flow of the guard's test suite: one call at a time, each one awaited
ApiCallers == {"c1"}

NextApi ==
  \/ \E c \in ApiCallers, id \in Ids : IsDuplicate(c, id)
  \/ \E c \in ApiCallers : ReturnDuplicate(c)
  \/ \E c \in ApiCallers : ReturnAdmitted(c)
  \/ \E c \in ApiCallers : MarkComplete(c)
  \/ \E c \in ApiCallers, e \in Errors : MarkFailed(c, e)
  \/ \E c \in ApiCallers, id \in Ids : GetStatus(c, id)
  \/ \E c \in ApiCallers : ReturnStatus(c)
  \/ CleanupAwaited
  \/ Tick

SpecApi == Init /\ [][NextApi]_vars

\* ---- the webhook handler (POST /webhooks/github) ----
\* A request is one flow c.  Its synchronous start (reading the headers, the
\* signature check, which always passes, and guard.isDuplicate(deliveryId)) is
\* IsDuplicate(c, id); the actions below are its continuations.  runAgent
\* catches every error and resolves to {success: false, ...}, so the handler's
\* await of it never throws and its catch block with guard.markFailed is
\* never entered: the handler has no step that calls markFailed.

\* isDuplicate resolved to true: answer 200 {status: 'duplicate'} and return
HandlerDuplicate(c) ==
  /\ pc[c] = "returning"
  /\ ret[c]
  /\ response' = [response EXCEPT ![c] = "duplicate"]
  /\ pc' = [pc EXCEPT ![c] = "done"]
  /\ seen' = [seen EXCEPT ![c] = Undefined]
  /\ UNCHANGED <<jobStore, now, job, ret, evictedRunning, peak, admissions, cleaned>>
  /\ UNCHANGED <<runs, result, finalized>>
  /\ UNCHANGED <<agentVars, selectorVars>>

\* isDuplicate resolved to false and parseGitHubPayload throws (issue.labels
\* that is not an array of objects): the handler's promise rejects before it
\* has answered, run the agent or entered the try block
HandlerParseThrows(c) ==
  /\ pc[c] = "returning"
  /\ ~ret[c]
  /\ pc' = [pc EXCEPT ![c] = "done"]
  /\ seen' = [seen EXCEPT ![c] = Undefined]
  /\ UNCHANGED <<jobStore, now, job, ret, evictedRunning, peak, admissions, cleaned>>
  /\ UNCHANGED <<handlerVars, agentVars, selectorVars>>

\* isDuplicate resolved to false and the payload parses: answer 202
\* {status: 'accepted'} and call runAgent(context)
HandlerAccept(c) ==
  /\ pc[c] = "returning"
  /\ ~ret[c]
  /\ response' = [response EXCEPT ![c] = "accepted"]
  /\ runs' = [runs EXCEPT ![c] = @ + 1]
  /\ pc' = [pc EXCEPT ![c] = "running"]
  /\ seen' = [seen EXCEPT ![c] = Undefined]
  /\ UNCHANGED <<jobStore, now, job, ret, evictedRunning, peak, admissions, cleaned>>
  /\ UNCHANGED <<result, finalized>>
  /\ UNCHANGED <<agentVars, selectorVars>>

\* runAgent resolved, to {success: true} or to {success: false}: the handler
\* does not read the result and calls guard.markComplete(deliveryId).  A
\* successful run has awaited the provider, so it resolves in a later task.
HandlerAgentReturns(c, success) ==
  /\ pc[c] = "running"
  /\ success => Quiescent
  /\ result' = [result EXCEPT ![c] = IF success THEN "success" ELSE "failure"]
  /\ jobStore' = markCompleteStore(jobStore, job[c], now)
  /\ finalized' = [finalized EXCEPT ![c] = "complete"]
  /\ pc' = [pc EXCEPT ![c] = "done"]
  /\ UNCHANGED <<now, job, seen, ret, evictedRunning, peak, admissions, cleaned>>
  /\ UNCHANGED <<response, runs>>
  /\ UNCHANGED <<agentVars, selectorVars>>

\* the request is over; the flow stands for the next request
HandlerEnd(c) ==
  /\ pc[c] = "done"
  /\ pc' = [pc EXCEPT ![c] = "idle"]
  /\ job' = [job EXCEPT ![c] = NoJob]
  /\ ret' = [ret EXCEPT ![c] = FALSE]
  /\ response' = [response EXCEPT ![c] = "none"]
  /\ runs' = [runs EXCEPT ![c] = 0]
  /\ result' = [result EXCEPT ![c] = "none"]
  /\ finalized' = [finalized EXCEPT ![c] = "none"]
  /\ UNCHANGED <<jobStore, now, seen, evictedRunning, peak, admissions, cleaned>>
  /\ UNCHANGED <<agentVars, selectorVars>>

NextHandler ==
  \/ \E c \in Callers, id \in Ids : IsDuplicate(c, id)
  \/ \E c \in Callers : HandlerDuplicate(c)
  \/ \E c \in Callers : HandlerParseThrows(c)
  \/ \E c \in Callers : HandlerAccept(c)
  \/ \E c \in Callers, success \in BOOLEAN : HandlerAgentReturns(c, success)
  \/ \E c \in Callers : HandlerEnd(c)
  \/ Cleanup
  \/ Tick

SpecHandler == Init /\ [][NextHandler]_vars

\* what a request does by itself once it has been received: the continuation
\* after isDuplicate runs, and runAgent eventually resolves (every provider
\* call and tool call returns or throws, and runAgent catches what is thrown).
\* Nothing is assumed about new requests, the clock or cleanup.
HandlerProgress(c) ==
  \/ HandlerDuplicate(c)
  \/ HandlerParseThrows(c)
  \/ HandlerAccept(c)
  \/ \E success \in BOOLEAN : HandlerAgentReturns(c, success)
  \/ HandlerEnd(c)

SpecHandlerFair == SpecHandler /\ \A c \in Callers : WF_vars(HandlerProgress(c))

\* ---- the agent loop (runAgent) ----
\* One run.  An action is the code between two suspensions of the run: the
\* awaits of Promise.all(loadSkillContent), of callLLM and of a tool function.

\* how many skills selectSkills may return
SkillCounts == {0, 1}

\* faulty variant: the loop runs once more
loopContinues_OffByOne(i) == i <= MaxIterations

\* `while (iteration < MAX_ITERATIONS)`
loopContinues(i) == i < MaxIterations

\* faulty variant: the exhausted budget is never noticed
budgetExhausted_Strict(i) == i > MaxIterations

\* `if (iteration >= MAX_ITERATIONS)` after the loop
budgetExhausted(i) == i >= MaxIterations

\* faulty variant: the stop signal of the older provider interface is
\* looked for ('end_turn'), which this provider never sends
naturalStop_EndTurn(r) == r.finishReason = "end_turn" /\ Len(r.names) = 0

\* faulty variant: the stop signal ends the loop whatever the response asks for
naturalStop_SignalOnly(r) == r.finishReason = "stop"

\* `response.finishReason === 'stop' && response.toolCalls.length === 0`
naturalStop(r) == r.finishReason = "stop" /\ Len(r.names) = 0

\* the position of the last model-response turn of a conversation
LastAssistant(msgs) ==
  LET ps == {p \in 1..Len(msgs) : msgs[p].role = "assistant"}
  IN  CHOOSE p \in ps : \A q \in ps : q <= p

\* faulty variant: the result is put directly after the model-response turn,
\* in front of the results that are already there
pushToolResult_AfterResponse(msgs, turn) ==
  LET q == LastAssistant(msgs)
  IN  SubSeq(msgs, 1, q) \o <<turn>> \o SubSeq(msgs, q + 1, Len(msgs))

\* messages.push of a tool-result turn
pushToolResult(msgs, turn) == Append(msgs, turn)

\* faulty variant: an unregistered tool throws, as in the stub variant of the
\* loop (`throw new Error('Unknown tool: ...')`)
unknownTool_Throws(msgs, steps, call) ==
  [thrown |-> TRUE, msgs |-> msgs, steps |-> steps]

\* faulty variant: an unregistered tool is passed over without a result turn
unknownTool_Skipped(msgs, steps, call) ==
  [thrown |-> FALSE, msgs |-> msgs, steps |-> steps]

\* the outcome of looking up an unregistered tool: an error text as the
\* result of the call, and no exception
unknownTool(msgs, steps, call) ==
  [thrown |-> FALSE,
   msgs |-> pushToolResult(msgs, ToolTurn(call.id, UnknownToolText)),
   steps |-> steps]

\* faulty variant: the error of a tool function is not caught around the
\* call, as in the stub variant of the loop (`await toolFn(toolCall.input)`
\* without try), and reaches the top-level catch
toolSettled_Uncaught(msgs, call, ok) ==
  IF ok
  THEN [thrown |-> FALSE, msgs |-> pushToolResult(msgs, ToolTurn(call.id, ResultText))]
  ELSE [thrown |-> TRUE, msgs |-> msgs]

\* the awaited tool function settled: its value, or the message of the error
\* caught around the call, becomes the result turn of the call
toolSettled(msgs, call, ok) ==
  [thrown |-> FALSE,
   msgs |-> pushToolResult(msgs, ToolTurn(call.id,
                                          IF ok THEN ResultText ELSE ThrownText))]

\* the for loop over response.toolCalls from position k, as far as it runs
\* without suspending: every call is recorded in completedSteps and looked up
\* in toolRegistry; an unregistered one gets its error result at once, a
\* registered one is invoked and awaited (the loop stops at k with it)
RECURSIVE dispatch(_, _, _, _)
dispatch(calls, k, msgs, steps) ==
  IF k > Len(calls)
  THEN [thrown |-> FALSE, k |-> k, msgs |-> msgs, steps |-> steps]
  ELSE LET recorded == Append(steps, Executed(calls[k].name))
       IN  IF calls[k].name \in ToolRegistry
           THEN [thrown |-> FALSE, k |-> k, msgs |-> msgs, steps |-> recorded]
           ELSE LET u == unknownTool(msgs, recorded, calls[k])
                IN  IF u.thrown
                    THEN [thrown |-> TRUE, k |-> k, msgs |-> u.msgs, steps |-> u.steps]
                    ELSE dispatch(calls, k + 1, u.msgs, u.steps)

\* `await callLLM(...)`: the run is suspended on one provider call
awaitLLM == {[kind |-> "llm", id |-> NoId]}

\* faulty variant: the tool functions of the remaining calls are all invoked
\* before the first of them is awaited
awaitTool_All(calls, k) == {[kind |-> "tool", id |-> calls[j].id] : j \in k..Len(calls)}

\* `await toolFn(args)`: the run is suspended on the tool call at position k
awaitTool(calls, k) == {[kind |-> "tool", id |-> calls[k].id]}

\* faulty variant: the result of a failed run carries no steps
Catch_DropsSteps(msgs, steps) ==
  /\ apc' = "done"
  /\ agentResult' = Failure
  /\ messages' = msgs
  /\ completedSteps' = <<>>
  /\ outstanding' = {}
  /\ UNCHANGED <<iteration, toolCalls, toolIndex, llmCalls>>

\* the top-level catch: the run resolves to {success: false, error}
Catch(msgs, steps) ==
  /\ apc' = "done"
  /\ agentResult' = Failure
  /\ messages' = msgs
  /\ completedSteps' = steps
  /\ outstanding' = {}
  /\ UNCHANGED <<iteration, toolCalls, toolIndex, llmCalls>>

\* the code after the loop: the run resolves to {success: true}
Finish(msgs, steps) ==
  /\ apc' = "done"
  /\ agentResult' = Success
  /\ messages' = msgs
  /\ completedSteps' =
       IF budgetExhausted(iteration) THEN Append(steps, MaxReached) ELSE steps
  /\ outstanding' = {}
  /\ UNCHANGED <<iteration, toolCalls, toolIndex, llmCalls>>

\* the head of the while loop: leave the loop, or count and invoke the provider
LoopHead(msgs, steps) ==
  IF loopContinues(iteration)
  THEN /\ iteration' = iteration + 1
       /\ llmCalls' = llmCalls + 1
       /\ apc' = "llm"
       /\ messages' = msgs
       /\ completedSteps' = steps
       /\ toolCalls' = <<>>
       /\ toolIndex' = 0
       /\ outstanding' = awaitLLM
       /\ UNCHANGED agentResult
  ELSE Finish(msgs, steps)

\* the for loop from position k on, and what follows it
RunTools(calls, k, msgs, steps) ==
  LET d == dispatch(calls, k, msgs, steps)
  IN  IF d.thrown
      THEN Catch(d.msgs, d.steps)
      ELSE IF d.k <= Len(calls)
           THEN /\ apc' = "tool"
                /\ toolCalls' = calls
                /\ toolIndex' = d.k
                /\ messages' = d.msgs
                /\ completedSteps' = d.steps
                /\ outstanding' = awaitTool(calls, d.k)
                /\ UNCHANGED <<iteration, agentResult, llmCalls>>
           ELSE LoopHead(d.msgs, d.steps)

\* runAgent is called: selectSkills returns n skills, their content is loaded
SelectSkills(n) ==
  /\ apc = "start"
  /\ apc' = "loading"
  /\ completedSteps' = Append(completedSteps, Selected(n))
  /\ UNCHANGED <<iteration, messages, toolCalls, toolIndex, agentResult, llmCalls,
                 outstanding, finishReason>>
  /\ UNCHANGED <<guardVars, cleaned, handlerVars, selectorVars>>

\* runAgent is called and selectSkills throws (a label of the issue without
\* a name: `l.toLowerCase()` of undefined in a label trigger)
SelectSkillsThrows ==
  /\ apc = "start"
  /\ Catch(messages, completedSteps)
  /\ UNCHANGED finishReason
  /\ UNCHANGED <<guardVars, cleaned, handlerVars, selectorVars>>

\* the skill contents are there: build the first turn and enter the loop
SkillsLoaded ==
  /\ apc = "loading"
  /\ LoopHead(<<UserTurn>>, Append(completedSteps, Loaded))
  /\ UNCHANGED finishReason
  /\ UNCHANGED <<guardVars, cleaned, handlerVars, selectorVars>>

\* callLLM resolves to response r
LLMReturns(r) ==
  /\ apc = "llm"
  /\ LET calls == WithIds(r.names, llmCalls)
         msgs == Append(messages, AssistantTurn(calls))
     IN  IF naturalStop(r)
         THEN Finish(msgs, Append(completedSteps, TaskCompleted))
         ELSE RunTools(calls, 1, msgs, completedSteps)
  /\ finishReason' = IF apc' = "llm" THEN NoReason ELSE r.finishReason
  /\ UNCHANGED <<guardVars, cleaned, handlerVars, selectorVars>>

\* callLLM throws (no API key, network error, tool arguments that do not parse)
LLMThrows ==
  /\ apc = "llm"
  /\ Catch(messages, completedSteps)
  /\ UNCHANGED finishReason
  /\ UNCHANGED <<guardVars, cleaned, handlerVars, selectorVars>>

\* the awaited tool function resolves (ok) or throws (~ok): its result turn
\* is pushed and the for loop goes on
ToolReturns(ok) ==
  /\ apc = "tool"
  /\ LET t == toolSettled(messages, toolCalls[toolIndex], ok)
     IN  IF t.thrown
         THEN Catch(t.msgs, completedSteps)
         ELSE RunTools(toolCalls, toolIndex + 1, t.msgs, completedSteps)
  /\ finishReason' = IF apc' = "llm" THEN NoReason ELSE finishReason
  /\ UNCHANGED <<guardVars, cleaned, handlerVars, selectorVars>>

NextAgent ==
  \/ \E n \in SkillCounts : SelectSkills(n)
  \/ SelectSkillsThrows
  \/ SkillsLoaded
  \/ \E r \in Responses : LLMReturns(r)
  \/ LLMThrows
  \/ \E ok \in BOOLEAN : ToolReturns(ok)

SpecAgent == Init /\ [][NextAgent]_vars

\* every awaited provider call and tool call eventually resolves or throws
SpecAgentFair == SpecAgent /\ WF_vars(NextAgent)

\* ---- the skill policy (skillPolicy.ts) ----
\* Scores are counted in halves of a point, so that the keyword score of 0.5
\* is the integer 1: an event type match is 4 halves, a matching label 2.

\* faulty variant: a label trigger scores one point however many labels match
evaluateTrigger_LabelCapped(trigger, ctx) ==
  LET values == trigger.value IN
  CASE trigger.type = "event_type" ->
         IF \E j \in 1..Len(values) : values[j] = ctx.eventType THEN 4 ELSE 0
    [] trigger.type = "label" ->
         IF \E k \in 1..Len(ctx.labels) : \E j \in 1..Len(values) :
              includes(toLowerCase(ctx.labels[k]), toLowerCase(values[j]))
         THEN 2 ELSE 0
    [] trigger.type = "keyword" ->
         LET textToSearch == toLowerCase(join(<<ctx.title, ctx.body>>)) IN
         1 * Len(SelectSeq(values,
                   LAMBDA v : includes(textToSearch, toLowerCase(v))))
    [] trigger.type = "path_pattern" -> 0

evaluateTrigger(trigger, ctx) ==
  LET values == trigger.value IN
  CASE trigger.type = "event_type" ->
         IF \E j \in 1..Len(values) : values[j] = ctx.eventType THEN 4 ELSE 0
    [] trigger.type = "label" ->
         LET labels == ctx.labels
             matchCount ==
               Len(SelectSeq(labels,
                     LAMBDA l : \E j \in 1..Len(values) :
                       includes(toLowerCase(l), toLowerCase(values[j]))))
         IN 2 * matchCount
    [] trigger.type = "keyword" ->
         LET textToSearch == toLowerCase(join(<<ctx.title, ctx.body>>))
             matchCount ==
               Len(SelectSeq(values,
                     LAMBDA v : includes(textToSearch, toLowerCase(v))))
         IN 1 * matchCount
    [] trigger.type = "path_pattern" -> 0

RECURSIVE sumTriggers(_, _)
sumTriggers(triggers, ctx) ==
  IF triggers = <<>> THEN 0
  ELSE evaluateTrigger(triggers[1], ctx) + sumTriggers(Tail(triggers), ctx)

evaluateSkillMatch(skill, ctx) == sumTriggers(skill.triggers, ctx)

\* faulty variant: a skill that scores nothing is kept
matching_NonNegative(score) == score >= 0

\* `if (score > 0)`: the skill takes part in the ranking
matching(score) == score > 0

\* faulty variant: the comparator of an ascending sort
compare_Ascending(a, b) == a.score - b.score

\* the comparator `(a, b) => b.score - a.score`
compare(a, b) == b.score - a.score

\* Array.prototype.sort with that comparator; the sort of the runtime is
\* stable: e goes behind every entry that does not have to come after it
sortInsert(sorted, e) ==
  LET k == Cardinality({i \in 1..Len(sorted) : compare(sorted[i], e) <= 0})
  IN SubSeq(sorted, 1, k) \o <<e>> \o SubSeq(sorted, k + 1, Len(sorted))

RECURSIVE sort(_)
sort(s) ==
  IF s = <<>> THEN <<>>
  ELSE sortInsert(sort(SubSeq(s, 1, Len(s) - 1)), s[Len(s)])

\* faulty variant: the entry at index end is returned too
slice_Inclusive(s, end) ==
  SubSeq(s, 1, IF end + 1 < Len(s) THEN end + 1 ELSE Len(s))

\* Array.prototype.slice(0, end)
slice(s, end) ==
  LET stop == IF end < 0 THEN (IF Len(s) + end > 0 THEN Len(s) + end ELSE 0)
              ELSE IF end < Len(s) THEN end ELSE Len(s)
  IN SubSeq(s, 1, stop)

\* the entries selectSkills collects in its loop over the registry
matchingSkills(reg, ctx) ==
  LET entries ==
        [i \in 1..Len(reg) |->
           [skill |-> reg[i], match |-> evaluateSkillMatch(reg[i], ctx),
            score |-> evaluateSkillMatch(reg[i], ctx) * reg[i].priority]]
      kept == SelectSeq(entries, LAMBDA e : matching(e.match))
  IN [i \in 1..Len(kept) |-> [skill |-> kept[i].skill, score |-> kept[i].score]]

\* faulty variant: the loop runs over skillRegistry.reverse(), which reverses
\* the module's array in place
selectSkills_ReversesRegistry(reg, ctx, arg) ==
  LET max == IF arg = NoMax THEN DefaultMaxSkills ELSE arg
      reversed == [i \in 1..Len(reg) |-> reg[Len(reg) + 1 - i]]
      top == slice(sort(matchingSkills(reversed, ctx)), max)
  IN [skills |-> [i \in 1..Len(top) |-> top[i].skill],
      registry |-> reversed]

\* selectSkills(context, maxSkills = 3): the array it returns, and the
\* registry array as the call leaves it (the loop only reads it, and sort
\* acts on the call's own matchingSkills array)
selectSkills(reg, ctx, arg) ==
  LET max == IF arg = NoMax THEN DefaultMaxSkills ELSE arg
      top == slice(sort(matchingSkills(reg, ctx)), max)
  IN [skills |-> [i \in 1..Len(top) |-> top[i].skill],
      registry |-> reg]

\* faulty variant: the failure to read SKILL.md is not caught
loadSkillContent_Rethrows(skill, md, ex) ==
  [skill |-> skill.name, md |-> md, ex |-> ex,
   thrown |-> (md = Missing),
   content |-> IF md = Missing THEN <<>>
               ELSE <<"# Skill: ", skill.name, "\n\n", "> ", skill.description,
                      "\n\n", md>>
                    \o (IF ex = Missing THEN <<>>
                        ELSE <<"\n\n## Examples\n\n", ex>>)]

\* loadSkillContent(skill), md and ex being what the reads of SKILL.md and
\* examples.md give; content is the text as the sequence of its pieces
loadSkillContent(skill, md, ex) ==
  LET header == <<"# Skill: ", skill.name, "\n\n", "> ", skill.description, "\n\n">>
      primary == IF md = Missing THEN <<"*SKILL.md not found*\n">> ELSE <<md>>
      examples == IF ex = Missing THEN <<>> ELSE <<"\n\n## Examples\n\n", ex>>
  IN [skill |-> skill.name, md |-> md, ex |-> ex, thrown |-> FALSE,
      content |-> header \o primary \o examples]

\* the policy is called for one context with one registry
InitSelector ==
  /\ jobStore = [k \in {} |-> Undefined]
  /\ now = 0
  /\ pc = [c \in Callers |-> "idle"]
  /\ job = [c \in Callers |-> NoJob]
  /\ seen = [c \in Callers |-> Undefined]
  /\ ret = [c \in Callers |-> FALSE]
  /\ evictedRunning = {}
  /\ peak = [id \in Ids |-> 0]
  /\ admissions = [id \in Ids |-> 0]
  /\ cleaned = NoCount
  /\ response = [c \in Callers |-> "none"]
  /\ runs = [c \in Callers |-> 0]
  /\ result = [c \in Callers |-> "none"]
  /\ finalized = [c \in Callers |-> "none"]
  /\ apc = "start"
  /\ iteration = 0
  /\ messages = <<>>
  /\ completedSteps = <<>>
  /\ toolCalls = <<>>
  /\ toolIndex = 0
  /\ agentResult = NoResult
  /\ llmCalls = 0
  /\ outstanding = {}
  /\ finishReason = NoReason
  /\ registry \in Registries
  /\ context \in Contexts
  /\ maxSkills = NoMax
  /\ matchScores = <<>>
  /\ selected = <<>>
  /\ selectCalls = 0
  /\ loaded = NoLoad
  /\ previous = [maxSkills |-> NoMax, skills |-> <<>>]

\* selectSkills(context) or selectSkills(context, arg)
CallSelectSkills(arg) ==
  /\ selectCalls < MaxCalls
  /\ LET r == selectSkills(registry, context, arg) IN
       /\ selected' = r.skills
       /\ registry' = r.registry
  /\ maxSkills' = arg
  /\ matchScores' = [i \in 1..Len(registry) |-> evaluateSkillMatch(registry[i], context)]
  /\ selectCalls' = selectCalls + 1
  /\ previous' = [maxSkills |-> maxSkills, skills |-> selected]
  /\ UNCHANGED <<context, loaded>>
  /\ UNCHANGED <<guardVars, cleaned, handlerVars, agentVars>>

\* await loadSkillContent(skill) for one of the selected skills
CallLoadSkillContent(i, md, ex) ==
  /\ i \in 1..Len(selected)
  /\ loaded' = loadSkillContent(selected[i], md, ex)
  /\ UNCHANGED <<registry, context, maxSkills, matchScores, selected, selectCalls,
                 previous>>
  /\ UNCHANGED <<guardVars, cleaned, handlerVars, agentVars>>

NextSelector ==
  \/ \E arg \in MaxSkillsArgs \cup {NoMax} : CallSelectSkills(arg)
  \/ \E i \in 1..Len(registry) : \E md \in FileContents, ex \in FileContents :
       CallLoadSkillContent(i, md, ex)

SpecSelector == InitSelector /\ [][NextSelector]_vars

\* ---- types ----
JobStatus == {"pending", "processing", "completed", "failed"}

JobRecord ==
  [id : Ids, status : JobStatus, createdAt : Times, updatedAt : Times,
   completedAt : Times \cup {NoTime}, error : Errors \cup {NoError},
   attempts : 0..MaxAttempts]

TypeOK ==
  /\ DOMAIN jobStore \subseteq Ids
  /\ \A id \in DOMAIN jobStore : jobStore[id] \in JobRecord /\ jobStore[id].id = id
  /\ now \in Times
  /\ \A c \in Callers :
       /\ pc[c] \in {"idle", "returning", "admitted", "status", "running", "done"}
       /\ response[c] \in {"none", "duplicate", "accepted"}
       /\ runs[c] \in 0..1
       /\ result[c] \in {"none", "success", "failure"}
       /\ finalized[c] \in {"none", "complete", "failed"}
       /\ job[c] \in Ids \cup {NoJob}
       /\ seen[c] \in JobRecord \cup {Undefined}
       /\ ret[c] \in BOOLEAN
  /\ cleaned \in {NoCount} \cup (0..Cardinality(Ids))
  /\ apc \in {"start", "loading", "llm", "tool", "done"}
  /\ iteration \in 0..MaxIterations
  /\ llmCalls \in 0..MaxIterations
  /\ agentResult \in {NoResult, Success, Failure}
  /\ toolIndex \in 0..Len(toolCalls)
  /\ \A o \in outstanding : o.kind \in {"llm", "tool"}
  /\ finishReason \in FinishReasons \cup {NoReason}
  /\ \A p \in 1..Len(messages) : messages[p].role \in {"user", "assistant", "tool"}
  /\ registry \in Registries
  /\ context \in Contexts \cup {NoContext}
  /\ maxSkills \in MaxSkillsArgs \cup {NoMax}
  /\ selectCalls \in 0..MaxCalls
  /\ Len(matchScores) \in {0, Len(registry)}
  /\ \A i \in 1..Len(matchScores) : matchScores[i] \in Nat
  /\ \A i \in 1..Len(selected) : \E j \in 1..Len(registry) : selected[i] = registry[j]
  /\ loaded.thrown \in BOOLEAN

\* ---- properties ----
\* isDuplicate calls in flight for a delivery id (settled, continuation pending)
InFlight(id) == {c \in Callers : pc[c] = "returning" /\ job[c] = id}

\* callers isDuplicate admitted for a delivery id that have not yet finalised
Admitted(id) ==
  {c \in Callers : job[c] = id /\ (pc[c] = "admitted" \/ (pc[c] = "returning" /\ ~ret[c]))}

\* the record read allows an admission at time t (fresh id, or failed, within the
\* attempt budget and past the cooldown)
Eligible(record, t) ==
  \/ record = Undefined
  \/ /\ record.status = "failed"
     /\ record.attempts < MaxAttempts
     /\ t - record.updatedAt >= RetryDelay

\* C1 (as claimed): at most one admitted caller per delivery id is unfinalised, over
\* any sequence of isDuplicate, markComplete, markFailed and cleanup calls.
C1_AtMostOneAdmitted ==
  \A id \in Ids : Cardinality(Admitted(id)) <= 1

\* C1 (amended): at most one admitted caller is unfinalised for every delivery id
\* whose record cleanup has never deleted while it was in status processing.
C1_AtMostOneAdmittedUnlessEvicted ==
  \A id \in Ids : id \notin evictedRunning => Cardinality(Admitted(id)) <= 1

C1_Witness ==
  \E id \in Ids, c1, c2 \in Callers :
    /\ c1 # c2
    /\ id \notin evictedRunning
    /\ c1 \in Admitted(id) /\ pc[c1] = "admitted"
    /\ c2 \in InFlight(id) /\ ret[c2]

\* C2: of the isDuplicate calls in flight at once for one delivery id, at most one
\* resolves to false, and exactly one does when one of them found the id fresh or
\* its failed record eligible for a retry.
C2_AtomicAdmission ==
  \A id \in Ids :
    LET proceed == {c \in InFlight(id) : ~ret[c]}
    IN  /\ Cardinality(proceed) <= 1
        /\ (\E c \in InFlight(id) : Eligible(seen[c], now)) => Cardinality(proceed) = 1

C2_Witness ==
  \E id \in Ids, c1, c2 \in Callers :
    /\ c1 \in InFlight(id) /\ c2 \in InFlight(id)
    /\ seen[c1] # Undefined /\ seen[c1].status = "failed" /\ ~ret[c1]
    /\ seen[c2] # Undefined /\ seen[c2].status = "processing" /\ ret[c2]

\* C3: an isDuplicate call that finds no record resolves to false, and every call
\* that finds the record in status processing resolves to true and leaves it as it is.
C3_AdmissionIdempotence ==
  \A c \in Callers :
    pc[c] = "returning" =>
      /\ seen[c] = Undefined => ~ret[c]
      /\ (seen[c] # Undefined /\ seen[c].status = "processing") =>
           ret[c] /\ Get(jobStore, job[c]) = seen[c]

C3_Witness ==
  \E c1, c2 \in Callers :
    /\ c1 # c2 /\ pc[c1] = "returning" /\ pc[c2] = "returning" /\ job[c1] = job[c2]
    /\ seen[c1] = Undefined /\ ~ret[c1]
    /\ seen[c2] # Undefined /\ seen[c2].status = "processing" /\ ret[c2]

C5_CompletedIsTerminal ==
  [][\A id \in Ids :
       (Has(jobStore, id) /\ jobStore[id].status = "completed" /\ Has(jobStore', id))
         => jobStore'[id].status = "completed"]_vars

\* C6: an isDuplicate call that finds the record failed with the attempt budget used
\* up (attempts >= maxAttempts, the state N admit-then-markFailed rounds on the
\* record lead to) returns true and changes nothing, whatever time has passed.
C6_RetryBound ==
  \A c \in Callers :
    (/\ pc[c] = "returning"
     /\ seen[c] # Undefined
     /\ seen[c].status = "failed"
     /\ seen[c].attempts >= MaxAttempts) =>
      ret[c] /\ Get(jobStore, job[c]) = seen[c]

C6_Witness ==
  \E c \in Callers :
    /\ pc[c] = "returning" /\ seen[c] # Undefined
    /\ seen[c].status = "failed" /\ seen[c].attempts = MaxAttempts
    /\ now - seen[c].updatedAt >= RetryDelay
    /\ ret[c]

\* C7: for a failed record with attempts below the maximum, an isDuplicate call made
\* before retryDelay has elapsed since the failure returns true and changes nothing;
\* one made once the delay has elapsed returns false and leaves the record in status
\* processing with the attempt count incremented by one.
C7_Cooldown ==
  \A c \in Callers :
    (/\ pc[c] = "returning"
     /\ seen[c] # Undefined
     /\ seen[c].status = "failed"
     /\ seen[c].attempts < MaxAttempts) =>
      IF now - seen[c].updatedAt < RetryDelay
      THEN ret[c] /\ Get(jobStore, job[c]) = seen[c]
      ELSE /\ ~ret[c]
           /\ Has(jobStore, job[c])
           /\ jobStore[job[c]].status = "processing"
           /\ jobStore[job[c]].attempts = seen[c].attempts + 1

C7_Witness ==
  \E c1, c2 \in Callers :
    /\ pc[c1] = "returning" /\ seen[c1] # Undefined /\ seen[c1].status = "failed"
    /\ now - seen[c1].updatedAt < RetryDelay /\ ret[c1]
    /\ pc[c2] = "returning" /\ seen[c2] # Undefined /\ seen[c2].status = "failed"
    /\ now - seen[c2].updatedAt >= RetryDelay /\ ~ret[c2]

StatusOf(store, id) == IF Has(store, id) THEN store[id].status ELSE "none"

AllowedTransitions ==
  {<<"none", "processing">>, <<"processing", "completed">>,
   <<"processing", "failed">>, <<"failed", "processing">>}

\* C8 (as claimed): the status of a record in the store changes only along
\* (none)->processing, processing->completed, processing->failed, failed->processing.
C8_TransitionsFollowStateMachine ==
  [][\A id \in Ids :
       Has(jobStore', id) =>
         \/ StatusOf(jobStore', id) = StatusOf(jobStore, id)
         \/ <<StatusOf(jobStore, id), StatusOf(jobStore', id)>> \in AllowedTransitions]_vars

\* an admitted retry of id: an isDuplicate call on an existing record resolves to false
AdmittedRetry(id) ==
  \E c \in Callers :
    /\ pc[c] = "idle" /\ pc'[c] = "returning"
    /\ job'[c] = id /\ ~ret'[c]
    /\ Has(jobStore, id)

\* C9 (as claimed): the attempt count stored for a delivery id never decreases: it is
\* always the highest count ever stored for the id.
C9_AttemptsNeverDecrease ==
  \A id \in Ids : Has(jobStore, id) => jobStore[id].attempts >= peak[id]

\* C9 (amended): while a record stays in the store its attempt count never decreases,
\* and it changes only by growing by exactly one on each admitted retry; a record
\* stored for an id that had none (also after cleanup deleted one) starts at 1.
C9_AttemptsMonotoneWhileStored ==
  [][\A id \in Ids :
       /\ (Has(jobStore, id) /\ Has(jobStore', id)) =>
            jobStore'[id].attempts =
              jobStore[id].attempts + (IF AdmittedRetry(id) THEN 1 ELSE 0)
       /\ (~Has(jobStore, id) /\ Has(jobStore', id)) => jobStore'[id].attempts = 1]_vars

C9_Witness ==
  \E id \in Ids :
    /\ Has(jobStore, id)
    /\ jobStore[id].status = "processing"
    /\ jobStore[id].attempts = MaxAttempts

\* C10: markComplete on a record in status processing sets the status to completed
\* and the completion timestamp, and leaves attempts and createdAt unchanged.
C10_MarkComplete ==
  [][\A c \in Callers :
       (/\ MarkComplete(c)
        /\ Has(jobStore, job[c])
        /\ jobStore[job[c]].status = "processing") =>
         /\ Has(jobStore', job[c])
         /\ jobStore'[job[c]].status = "completed"
         /\ jobStore'[job[c]].completedAt = now
         /\ jobStore'[job[c]].attempts = jobStore[job[c]].attempts
         /\ jobStore'[job[c]].createdAt = jobStore[job[c]].createdAt]_vars

C10_Witness ==
  \E id \in Ids :
    /\ Has(jobStore, id)
    /\ jobStore[id].status = "completed"
    /\ jobStore[id].completedAt = now
    /\ jobStore[id].attempts = 2
    /\ jobStore[id].createdAt < now

\* C11: markFailed on a running record sets its status to failed and records
\* the error's message, leaving the attempt count (and the creation time)
\* unchanged; once the retry delay has passed the record is admitted again
\* if its attempts are below the maximum, and rejected for good otherwise.
C11_MarkFailed ==
  [][\A c \in Callers, e \in Errors :
       (/\ MarkFailed(c, e)
        /\ Has(jobStore, job[c])
        /\ jobStore[job[c]].status = "processing") =>
         /\ Has(jobStore', job[c])
         /\ jobStore'[job[c]].status = "failed"
         /\ jobStore'[job[c]].error = e
         /\ jobStore'[job[c]].attempts = jobStore[job[c]].attempts
         /\ jobStore'[job[c]].createdAt = jobStore[job[c]].createdAt
         /\ isDuplicateResult(jobStore'[job[c]], now + RetryDelay)
              = (jobStore[job[c]].attempts >= MaxAttempts)]_vars

\* a failed record that carries the second error message and may be retried
C11_Witness ==
  \E id \in Ids :
    /\ Has(jobStore, id)
    /\ jobStore[id].status = "failed"
    /\ jobStore[id].error = "E2"
    /\ jobStore[id].updatedAt = now
    /\ jobStore[id].attempts = 2

\* C12: for a delivery id that has no record, getStatus returns undefined and
\* leaves the store as it is, markComplete and markFailed leave the store as
\* it is, and a record for an id that had none appears only in a step of
\* isDuplicate for that id.
C12_UnknownIds ==
  [][/\ \A c \in Callers, id \in Ids :
          GetStatus(c, id) =>
            /\ jobStore' = jobStore
            /\ ~Has(jobStore, id) => seen'[c] = Undefined
            /\ Has(jobStore, id) => seen'[c] = jobStore[id]
     /\ \A c \in Callers :
          (MarkComplete(c) /\ ~Has(jobStore, job[c])) => jobStore' = jobStore
     /\ \A c \in Callers, e \in Errors :
          (MarkFailed(c, e) /\ ~Has(jobStore, job[c])) => jobStore' = jobStore
     /\ \A id \in Ids :
          (~Has(jobStore, id) /\ Has(jobStore', id)) =>
            \E c \in Callers : IsDuplicate(c, id)]_vars

\* getStatus finds no record for an id whose running record was removed
\* by cleanup (the flow admitted for it has since finalised, to no effect)
C12_Witness ==
  \E c \in Callers :
    /\ pc[c] = "status"
    /\ job[c] \in evictedRunning
    /\ ~Has(jobStore, job[c])
    /\ seen[c] = Undefined

\* C13: cleanup removes exactly the records created before now minus the TTL,
\* whatever their status and however recently they were updated, resolves to
\* the number of records it removed, and leaves every other record as it was.
C13_Cleanup ==
  [][CleanupAwaited =>
       /\ DOMAIN jobStore' =
            {id \in DOMAIN jobStore : ~(jobStore[id].createdAt < now - Ttl)}
       /\ \A id \in DOMAIN jobStore' : jobStore'[id] = jobStore[id]
       /\ cleaned' = Cardinality(DOMAIN jobStore \ DOMAIN jobStore')]_vars

\* cleanup removed one record, which was running in its second attempt, and
\* kept another one
C13_Witness ==
  /\ cleaned = 1
  /\ DOMAIN jobStore # {}
  /\ \E id \in evictedRunning : ~Has(jobStore, id) /\ peak[id] >= 2

\* C14: a request whose admission check returned true is answered with
\* 'duplicate', has not run the agent and has not finalised the record; a
\* request whose admission check returned false has run the agent exactly
\* once when the handler is through with it, and no request runs it twice.
C14_WebhookIdempotence ==
  \A c \in Callers :
    /\ runs[c] <= 1
    /\ pc[c] = "returning" => runs[c] = 0
    /\ (pc[c] = "done" /\ ret[c]) =>
         response[c] = "duplicate" /\ runs[c] = 0 /\ finalized[c] = "none"
    /\ (pc[c] = "done" /\ ~ret[c]) => runs[c] = 1

\* what the handler does guarantee: a duplicate is answered as such, is never
\* run and never finalised, and an admitted request runs the agent at most once
HandlerRunsAtMostOnce ==
  \A c \in Callers :
    /\ runs[c] <= 1
    /\ pc[c] = "returning" => runs[c] = 0
    /\ (pc[c] = "done" /\ ret[c]) =>
         response[c] = "duplicate" /\ runs[c] = 0 /\ finalized[c] = "none"
    /\ (pc[c] = "done" /\ ~ret[c] /\ response[c] = "accepted") => runs[c] = 1

\* C15: when the agent run of an admitted delivery has ended, the handler has
\* called markComplete if the run completed and markFailed if it failed, and
\* the record of a delivery whose run failed is in status failed.
C15_FinalizationFollowsResult ==
  \A c \in Callers :
    (pc[c] = "done" /\ result[c] # "none") =>
      /\ finalized[c] = IF result[c] = "success" THEN "complete" ELSE "failed"
      /\ (result[c] = "failure" /\ Has(jobStore, job[c])) =>
           jobStore[job[c]].status = "failed"

\* ---- properties of the agent loop ----
\* the positions of the model-response turns of the conversation
AssistantTurns == {p \in 1..Len(messages) : messages[p].role = "assistant"}

\* every response of the provider so far requested at least one tool call
AllResponsesRequestTools ==
  \A p \in AssistantTurns : Len(messages[p].tool_calls) > 0

\* the step list has an entry with this text
HasStep(text) == \E i \in 1..Len(completedSteps) : completedSteps[i].text = text

\* C16: a response with zero tool calls and the stop signal ends the run in
\* that very step with success = true: the provider is not invoked again
\* (no step is ever taken by a run that has returned), the response is the
\* last turn of the conversation and the only step recorded for it is
\* 'Task completed', no tool dispatch.
C16_NaturalStop ==
  [][/\ apc # "done"
     /\ \A r \in Responses :
          (LLMReturns(r) /\ r.finishReason = "stop" /\ r.names = <<>>) =>
            /\ apc' = "done"
            /\ agentResult'.success
            /\ llmCalls' = llmCalls
            /\ iteration' = iteration
            /\ messages' = Append(messages, AssistantTurn(<<>>))
            /\ Len(completedSteps') > Len(completedSteps)
            /\ completedSteps'[Len(completedSteps) + 1] = TaskCompleted
            /\ \A i \in (Len(completedSteps) + 1)..Len(completedSteps') :
                 completedSteps'[i].text # "Executed tool"]_vars

\* the run stopped naturally in its second iteration, after a tool call
C16_Witness ==
  /\ apc = "done"
  /\ agentResult = Success
  /\ llmCalls = 2
  /\ HasStep("Task completed")
  /\ HasStep("Executed tool")
  /\ messages[Len(messages)] = AssistantTurn(<<>>)

\* C17: when every response of the provider requests at least one tool call,
\* the run returns after exactly MaxIterations provider invocations: it never
\* makes more, it does not return with fewer, and it does return.
C17_BudgetExhaustion ==
  /\ [](AllResponsesRequestTools => llmCalls <= MaxIterations)
  /\ []((apc = "done" /\ agentResult.success /\ AllResponsesRequestTools) =>
          /\ llmCalls = MaxIterations
          /\ Cardinality(AssistantTurns) = MaxIterations)
  /\ <>(apc = "done")

\* the run returned after MaxIterations responses that all requested tools
C17_Witness ==
  /\ apc = "done"
  /\ agentResult.success
  /\ AllResponsesRequestTools
  /\ llmCalls = MaxIterations
  /\ Cardinality(AssistantTurns) = MaxIterations

\* C18: a run whose provider invocations all returned, that used up its
\* iterations and never stopped naturally, resolves to success = true
\* without an error field, and the last entry of its step list is
\* 'Max iterations reached'.
C18_ExhaustionIsSuccess ==
  (/\ apc = "done"
   /\ llmCalls = MaxIterations
   /\ Cardinality(AssistantTurns) = llmCalls
   /\ ~HasStep("Task completed")) =>
     /\ agentResult.success
     /\ agentResult.error = NoError
     /\ completedSteps[Len(completedSteps)] = MaxReached

\* the budget ran out on a response whose last tool call threw
C18_Witness ==
  /\ apc = "done"
  /\ agentResult = Success
  /\ ~HasStep("Task completed")
  /\ completedSteps[Len(completedSteps)] = MaxReached
  /\ messages[Len(messages)].content = ThrownText

\* C19: the results of the tool calls of a model-response turn follow that
\* turn directly and in the order of the calls, one turn per call with the
\* call's id, whether the tools resolved or threw; results are missing only
\* from the call on that the run is awaiting.
C19_ToolResultOrder ==
  \A p \in AssistantTurns :
    \A i \in 1..Len(messages[p].tool_calls) :
      IF p + i <= Len(messages)
      THEN /\ messages[p + i].role = "tool"
           /\ messages[p + i].tool_call_id = messages[p].tool_calls[i].id
      ELSE /\ apc = "tool"
           /\ Len(messages) = p + toolIndex - 1

\* a response asked for three tools; the first threw, the third resolved
C19_Witness ==
  \E p \in AssistantTurns :
    /\ Len(messages[p].tool_calls) = 3
    /\ p + 3 <= Len(messages)
    /\ messages[p + 1].content = ThrownText
    /\ messages[p + 2].content = ResultText
    /\ messages[p + 3].content = ResultText
    /\ \A i \in 1..3 : messages[p + i].tool_call_id = <<1, i>>

AllResultsInPlace ==
  \A p \in AssistantTurns : p + Len(messages[p].tool_calls) <= Len(messages)

\* C21: the error of a registered tool is a result turn with the error text
\* and the id of its call; the calls after it get their results and the
\* provider is invoked again with all results in place; a run fails only
\* with all results in place, that is on a provider invocation and never on
\* a tool call.
C21_ToolErrorsDoNotAbort ==
  /\ \A p \in AssistantTurns :
       \A i \in 1..Len(messages[p].tool_calls) :
         (p + i <= Len(messages) /\ messages[p + i].content = ThrownText) =>
           /\ messages[p + i].role = "tool"
           /\ messages[p + i].tool_call_id = messages[p].tool_calls[i].id
           /\ messages[p].tool_calls[i].name \in ToolRegistry
  /\ apc \in {"llm", "done"} => AllResultsInPlace
  /\ apc = "tool" => agentResult = NoResult
  /\ agentResult = Failure =>
       /\ apc = "done"
       /\ llmCalls = 0 \/ Cardinality(AssistantTurns) = llmCalls - 1

\* a run that succeeded although the first tool of its first response threw:
\* the other two tools of that response ran and the provider was invoked again
C21_Witness ==
  /\ apc = "done"
  /\ agentResult = Success
  /\ Len(messages) >= 6
  /\ Len(messages[2].tool_calls) = 3
  /\ messages[3].content = ThrownText
  /\ messages[4].content = ResultText
  /\ messages[5].content = ResultText
  /\ messages[6].role = "assistant"

\* C22: an error of skill selection or of a provider invocation ends the run
\* in that step with the result {success: false, error: message}; the step
\* list is the one accumulated before the error; and a run that has ended
\* has always resolved to a result.
C22_TopLevelErrorBoundary ==
  [][/\ (SelectSkillsThrows \/ LLMThrows) =>
          /\ apc' = "done"
          /\ agentResult' = Failure
          /\ ~agentResult'.success
          /\ agentResult'.error # NoError
          /\ completedSteps' = completedSteps
     /\ apc' = "done" => agentResult' \in {Success, Failure}]_vars

\* a run that failed in its second provider invocation and still reports
\* the selection, the loading and the tool it executed before
C22_Witness ==
  /\ apc = "done"
  /\ agentResult = Failure
  /\ llmCalls = 2
  /\ Len(completedSteps) = 3
  /\ completedSteps[1].text = "Selected skills"
  /\ completedSteps[2] = Loaded
  /\ completedSteps[3].text = "Executed tool"
\* ---- properties of the skill policy ----
\* the position of a returned skill in the registry (names are unique)
RegistryIndex(skill) == CHOOSE j \in 1..Len(registry) : registry[j].name = skill.name

\* the ranking score of the registry entry at position j in the last call
RankingScore(j) == matchScores[j] * registry[j].priority

ContainsIgnoringCase(s, v) == includes(toLowerCase(s), toLowerCase(v))

Values(trigger) == {trigger.value[j] : j \in 1..Len(trigger.value)}

\* what a trigger is to contribute, in halves of a point: 2 points for the
\* event type, 1 point per matching label, half a point per keyword found
ExpectedHalves(trigger) ==
  CASE trigger.type = "event_type" ->
         IF context.eventType \in Values(trigger) THEN 4 ELSE 0
    [] trigger.type = "label" ->
         2 * Cardinality({k \in 1..Len(context.labels) :
                           \E v \in Values(trigger) :
                             ContainsIgnoringCase(context.labels[k], v)})
    [] trigger.type = "keyword" ->
         Cardinality({v \in Values(trigger) :
                       ContainsIgnoringCase(context.title \o <<" ">> \o context.body, v)})
    [] OTHER -> 0

RECURSIVE ExpectedMatch(_, _)
ExpectedMatch(skill, n) ==
  IF n = 0 THEN 0
  ELSE ExpectedHalves(skill.triggers[n]) + ExpectedMatch(skill, n - 1)

C25_SelectorExclusion ==
  selectCalls > 0 =>
    /\ \A j \in 1..Len(registry) :
         RankingScore(j) <= 0 =>
           \A i \in 1..Len(selected) : selected[i] # registry[j]
    /\ \A i \in 1..Len(selected) : RankingScore(RegistryIndex(selected[i])) > 0

\* one skill is asked for and returned, while another skill scores nothing
C25_Witness ==
  /\ selectCalls > 0
  /\ maxSkills = 1
  /\ Len(selected) = 1
  /\ \E j \in 1..Len(registry) :
       /\ matchScores[j] = 0
       /\ \A i \in 1..Len(selected) : selected[i] # registry[j]
  /\ context.labels = <<BUG, bug>>
  /\ selected[1].name = "bugfix-skill"

\* C26: selector ordering.  The returned skills are in descending order of
\* ranking score (match score times priority); skills of equal ranking score
\* are in the order they have in the registry; and of two returned skills
\* with the same match score and priorities 15 and 10, the one with priority
\* 15 comes first.
C26_SelectorOrdering ==
  selectCalls > 0 =>
    \A i \in 1..Len(selected) : \A k \in 1..Len(selected) :
      LET a == RegistryIndex(selected[i])
          b == RegistryIndex(selected[k])
      IN /\ i < k => RankingScore(a) >= RankingScore(b)
         /\ (i < k /\ RankingScore(a) = RankingScore(b)) => a < b
         /\ ( /\ matchScores[a] = matchScores[b]
              /\ registry[a].priority = 15
              /\ registry[b].priority = 10 ) => i < k

\* three skills with the same match score are returned: the one of priority
\* 15 first, the two of priority 10 behind it in registry order
C26_Witness ==
  /\ selectCalls > 0
  /\ registry = TiedRegistry
  /\ Len(selected) = 3
  /\ selected[1].name = "second-skill"
  /\ selected[2].name = "first-skill"
  /\ selected[3].name = "third-skill"
  /\ matchScores[1] = matchScores[2]
  /\ matchScores[1] = matchScores[3]

\* the registry entries that match the context in the last call
Matching == {j \in 1..Len(registry) : matchScores[j] > 0}

\* the place of a matching entry in the full ranked list: behind every
\* entry of higher ranking score and every earlier entry of the same score
RankedPosition(j) ==
  1 + Cardinality({h \in Matching :
        \/ RankingScore(h) > RankingScore(j)
        \/ RankingScore(h) = RankingScore(j) /\ h < j})

\* maxSkills of the last call, 3 when the argument was omitted
EffectiveMax == IF maxSkills = NoMax THEN DefaultMaxSkills ELSE maxSkills

\* C27: selector size bound.  selectSkills returns at most maxSkills skills
\* (3 when maxSkills is omitted), and they are exactly the first maxSkills
\* entries of the full ranked list of the matching skills: all of them when
\* fewer match.
C27_SelectorSizeBound ==
  selectCalls > 0 =>
    /\ Len(selected) <= EffectiveMax
    /\ Len(selected) = IF Cardinality(Matching) < EffectiveMax
                          THEN Cardinality(Matching) ELSE EffectiveMax
    /\ \A j \in Matching :
         RankedPosition(j) <= EffectiveMax =>
           /\ RankedPosition(j) <= Len(selected)
           /\ selected[RankedPosition(j)] = registry[j]

\* four skills match and maxSkills is omitted: three are returned, and the
\* matching skill ranked fourth is left out
C27_Witness ==
  /\ selectCalls > 0
  /\ maxSkills = NoMax
  /\ Cardinality(Matching) = 4
  /\ Len(selected) = 3
  /\ \E j \in Matching :
       /\ RankedPosition(j) = 4
       /\ \A i \in 1..Len(selected) : selected[i] # registry[j]

\* the place of the registry entry j among the returned skills, 0 if absent
SelectedPosition(j) ==
  IF \E i \in 1..Len(selected) : selected[i] = registry[j]
  THEN CHOOSE i \in 1..Len(selected) : selected[i] = registry[j]
  ELSE 0

\* C28: the priority rule as documented.  Whenever several skills match the
\* context, a matching skill of higher priority is selected before every
\* matching skill of lower priority: where the lower one is returned, the
\* higher one is returned at an earlier place.
C28_PriorityRule ==
  selectCalls > 0 =>
    \A a \in Matching : \A b \in Matching :
      (registry[a].priority > registry[b].priority /\ SelectedPosition(b) > 0) =>
        /\ SelectedPosition(a) > 0
        /\ SelectedPosition(a) < SelectedPosition(b)

\* C29: skill loading never aborts the run.  Every loadSkillContent call
\* returns text without throwing: the header with name and description;
\* then SKILL.md, or a placeholder when it cannot be read; then the examples
\* section, or nothing when examples.md cannot be read.
C29_LoadNeverThrows ==
  loaded # NoLoad =>
    /\ ~loaded.thrown
    /\ Len(loaded.content) >= 7
    /\ loaded.content[1] = "# Skill: "
    /\ loaded.content[2] = loaded.skill
    /\ loaded.content[7] =
         (IF loaded.md = Missing THEN "*SKILL.md not found*\n" ELSE loaded.md)
    /\ loaded.ex = Missing => Len(loaded.content) = 7
    /\ loaded.ex # Missing =>
         /\ Len(loaded.content) = 9
         /\ loaded.content[8] = "\n\n## Examples\n\n"
         /\ loaded.content[9] = loaded.ex

\* a selected skill was loaded with neither file readable
C29_Witness ==
  /\ loaded # NoLoad
  /\ loaded.md = Missing
  /\ loaded.ex = Missing
  /\ ~loaded.thrown
  /\ \E i \in 1..Len(selected) : selected[i].name = loaded.skill

\* ---- the cooldown boundary of the guard ----
\* caller c's isDuplicate call has just read a failed record that has
\* attempts left
RetryDecided(c) ==
  /\ pc[c] = "returning"
  /\ seen[c] # Undefined
  /\ seen[c].status = "failed"
  /\ seen[c].attempts < MaxAttempts

\* C30 (as claimed): a retry of a failed record is admitted only if the time
\* elapsed since its last update strictly exceeds retryDelay; an isDuplicate
\* call made when the elapsed time equals retryDelay returns true.
C30_CooldownBoundaryStrict ==
  \A c \in Callers :
    RetryDecided(c) =>
      /\ ~ret[c] => now - seen[c].updatedAt > RetryDelay
      /\ now - seen[c].updatedAt = RetryDelay => ret[c]

\* C30 (amended): a retry of a failed record with attempts left is admitted
\* exactly if the time elapsed since its last update is at least retryDelay;
\* an isDuplicate call made when the elapsed time equals retryDelay returns
\* false and takes the record to status processing.
C30_CooldownBoundary ==
  \A c \in Callers :
    RetryDecided(c) =>
      /\ ~ret[c] <=> now - seen[c].updatedAt >= RetryDelay
      /\ now - seen[c].updatedAt = RetryDelay =>
           /\ ~ret[c]
           /\ Has(jobStore, job[c])
           /\ jobStore[job[c]].status = "processing"
           /\ jobStore[job[c]].updatedAt = now

\* a retry made exactly retryDelay after the failure has been admitted
C30_Witness ==
  \E c \in Callers :
    /\ RetryDecided(c)
    /\ now - seen[c].updatedAt = RetryDelay
    /\ ~ret[c]

\* ---- further properties of the guard ----
\* C31: a rejected admission changes nothing.  Whenever an isDuplicate call
\* returns true, the record it read is running, completed or failed (in
\* cooldown or with its attempts exhausted), and the call leaves the whole
\* store as it was: status, attempt count and last-update timestamp of that
\* record, and every other record.
C31_RejectionChangesNothing ==
  [][\A c \in Callers :
       (pc[c] = "idle" /\ pc'[c] = "returning" /\ ret'[c]) =>
         /\ jobStore' = jobStore
         /\ seen'[c] = Get(jobStore, job'[c])
         /\ seen'[c] # Undefined
         /\ \/ seen'[c].status \in {"processing", "completed"}
            \/ /\ seen'[c].status = "failed"
               /\ \/ seen'[c].attempts >= MaxAttempts
                  \/ now - seen'[c].updatedAt < RetryDelay]_vars

\* a call on a failed record with its attempts exhausted has been rejected
\* while the store holds a second record, and the store is as the call found it
C31_Witness ==
  \E c \in Callers :
    /\ pc[c] = "returning"
    /\ ret[c]
    /\ seen[c] # Undefined
    /\ seen[c].status = "failed"
    /\ seen[c].attempts >= MaxAttempts
    /\ Get(jobStore, job[c]) = seen[c]
    /\ \E id \in Ids : id # job[c] /\ Has(jobStore, id)

\* ---- further properties of the agent loop ----
\* C32: the loop is strictly sequential.  At most one provider call or tool
\* invocation of the run is outstanding at any time; while a tool invocation
\* is outstanding, the calls before it in the response have their results
\* appended and the calls after it have not been started; while a provider
\* call is outstanding, every tool call of every response so far has its
\* result appended; otherwise nothing is outstanding.
C32_StrictlySequential ==
  /\ Cardinality(outstanding) <= 1
  /\ apc = "llm" => outstanding = awaitLLM /\ AllResultsInPlace
  /\ apc = "tool" =>
       /\ outstanding = {[kind |-> "tool", id |-> toolCalls[toolIndex].id]}
       /\ AssistantTurns # {}
       /\ messages[LastAssistant(messages)].tool_calls = toolCalls
       /\ Len(messages) = LastAssistant(messages) + toolIndex - 1
       /\ \A i \in 1..(toolIndex - 1) :
            messages[LastAssistant(messages) + i].tool_call_id = toolCalls[i].id
  /\ apc \in {"start", "loading", "done"} => outstanding = {}

\* the second of three tool invocations of a response is outstanding: the
\* first result is appended, the third call has not been started
C32_Witness ==
  /\ apc = "tool"
  /\ Len(toolCalls) = 3
  /\ toolIndex = 2
  /\ outstanding = {[kind |-> "tool", id |-> toolCalls[2].id]}
  /\ messages[Len(messages)].role = "tool"
  /\ messages[Len(messages)].tool_call_id = toolCalls[1].id

\* the tool-result turns with this id between positions lo and hi
ResultsFor(id, lo, hi) ==
  {q \in lo..hi : messages[q].role = "tool" /\ messages[q].tool_call_id = id}

\* the position of the first model-response turn after p, or the position
\* after the last turn
NextAssistant(p) ==
  LET later == {q \in AssistantTurns : q > p}
  IN  IF later = {} THEN Len(messages) + 1
      ELSE CHOOSE q \in later : \A r \in later : q <= r

\* C33: conversation well-formedness.  Whenever the provider is invoked, the
\* conversation starts with the task-framing turn, which is its only user
\* turn; every tool call of every model-response turn has exactly one result
\* turn with its id, and that turn stands between the response and the next
\* model-response turn; and every tool-result turn carries the id of exactly
\* one call of the response before it.
C33_ConversationWellFormed ==
  apc = "llm" =>
    /\ Len(messages) >= 1
    /\ messages[1] = UserTurn
    /\ \A q \in 2..Len(messages) : messages[q].role \in {"assistant", "tool"}
    /\ \A p \in AssistantTurns :
         \A i \in 1..Len(messages[p].tool_calls) :
           LET id == messages[p].tool_calls[i].id IN
           /\ Cardinality(ResultsFor(id, 1, Len(messages))) = 1
           /\ Cardinality(ResultsFor(id, p + 1, NextAssistant(p) - 1)) = 1
    /\ \A q \in 1..Len(messages) :
         messages[q].role = "tool" =>
           Cardinality({<<p, i>> \in AssistantTurns \X (1..3) :
                          /\ p < q
                          /\ i <= Len(messages[p].tool_calls)
                          /\ messages[p].tool_calls[i].id = messages[q].tool_call_id}) = 1

\* the provider is invoked a third time, after a response with three tool
\* calls and a response with one
C33_Witness ==
  /\ apc = "llm"
  /\ llmCalls = 3
  /\ Cardinality(AssistantTurns) = 2
  /\ \E p \in AssistantTurns : Len(messages[p].tool_calls) = 3
  /\ \E p \in AssistantTurns : Len(messages[p].tool_calls) = 1
  /\ Len(messages) = 7

\* C34: before the iteration cap the loop is left only on a response with
\* the stop signal and zero tool calls.  When a response arrives in an
\* iteration that is not the last: a run that returns on it got the stop
\* signal with zero tool calls; a response with the stop signal and tool
\* calls has its calls dispatched (the run awaits the first of them, and
\* the provider is only invoked again with all results in place) and does
\* not record 'Task completed'; a response with zero tool calls and another
\* finish reason makes the run invoke the provider again.
C34_ExitOnlyOnNaturalStop ==
  [][\A r \in Responses :
       (LLMReturns(r) /\ iteration < MaxIterations) =>
         /\ apc' = "done" => (r.finishReason = "stop" /\ Len(r.names) = 0)
         /\ (r.finishReason = "stop" /\ Len(r.names) > 0) =>
              /\ apc' = "tool"
              /\ Len(toolCalls') = Len(r.names)
              /\ \A i \in 1..Len(r.names) : toolCalls'[i].name = r.names[i]
              /\ completedSteps'[Len(completedSteps')].text = "Executed tool"
              /\ ~(\E i \in 1..Len(completedSteps') : completedSteps'[i] = TaskCompleted)
         /\ (r.finishReason # "stop" /\ Len(r.names) = 0) =>
              /\ apc' = "llm"
              /\ llmCalls' = llmCalls + 1
              /\ messages' = Append(messages, AssistantTurn(<<>>))
              /\ completedSteps' = completedSteps]_vars

\* the first response had no tool calls and the run invoked the provider
\* again; the second response has the stop signal and three tool calls, and
\* the run is awaiting the last of them
C34_Witness ==
  /\ llmCalls = 2
  /\ Len(messages) >= 3
  /\ messages[2] = AssistantTurn(<<>>)
  /\ apc = "tool"
  /\ finishReason = "stop"
  /\ Len(toolCalls) = 3
  /\ toolIndex = 3

\* C35: budget exhaustion is recorded only when it happened.  The step list
\* of a run contains 'Max iterations reached' only if the run returned
\* without a natural stop: a step list with 'Task completed' never has
\* 'Max iterations reached' as well, also not when the natural stop came in
\* the last allowed iteration.
C35_ExhaustionOnlyWhenItHappened ==
  HasStep("Max iterations reached") =>
    /\ apc = "done"
    /\ ~HasStep("Task completed")

\* C36: record field consistency.  A record in the store carries an error
\* message only in status failed and a completion timestamp only in status
\* completed; a record that failed, was retried and completed has no error
\* message.
C36_FieldConsistency ==
  \A id \in DOMAIN jobStore :
    /\ jobStore[id].error # NoError => jobStore[id].status = "failed"
    /\ jobStore[id].completedAt # NoTime => jobStore[id].status = "completed"

\* ---- further properties of the webhook handler ----
\* C37: every delivery admitted by the webhook handler is eventually
\* finalized.  With every run of the agent resolving, a record in status
\* processing eventually is completed or failed, unless cleanup evicts it.
C37_AdmittedEventuallyFinalized ==
  \A id \in Ids :
    (Has(jobStore, id) /\ jobStore[id].status = "processing")
      ~> (\/ ~Has(jobStore, id)
          \/ jobStore[id].status \in {"completed", "failed"})

\* request d has been admitted for the delivery id and is not over
AdmittedFor(d, id) ==
  /\ job[d] = id
  /\ \/ pc[d] = "returning" /\ ~ret[d]
     \/ pc[d] = "running"

\* C38: admission state is shared across guard instances.  When a request
\* calls isDuplicate on its own new guard instance for a delivery that
\* another request has been admitted for through another instance, and the
\* record is still in the store, the call reads that very record and is
\* rejected as a duplicate; the record is running unless it was evicted and
\* the delivery handled again in between.
C38_SharedAdmissionState ==
  [][\A c \in Callers : \A d \in Callers \ {c} :
       ( /\ pc[c] = "idle"
         /\ pc'[c] = "returning"
         /\ AdmittedFor(d, job'[c])
         /\ Has(jobStore, job'[c]) ) =>
           /\ seen'[c] = jobStore[job'[c]]
           /\ ret'[c]
           /\ jobStore' = jobStore
           /\ evictedRunning = {} => seen'[c].status = "processing"]_vars

\* a request was rejected as a duplicate of the running request of another
\* guard instance
C38_Witness ==
  \E c \in Callers : \E d \in Callers \ {c} :
    /\ pc[d] = "running"
    /\ pc[c] = "returning"
    /\ job[c] = job[d]
    /\ ret[c]
    /\ seen[c].status = "processing"
    /\ evictedRunning = {}

\* ---- bounded admissions and the pending status ----
\* C39: bounded admissions.  As long as cleanup does not evict the record of
\* a delivery id, isDuplicate returns false for that id at most MaxAttempts
\* times, and the attempt count of the record is the number of those
\* admissions and never exceeds MaxAttempts.
C39_BoundedAdmissions ==
  \A id \in Ids :
    /\ admissions[id] <= MaxAttempts
    /\ Has(jobStore, id) =>
         /\ jobStore[id].attempts = admissions[id]
         /\ jobStore[id].attempts >= 1
         /\ jobStore[id].attempts <= MaxAttempts
    /\ ~Has(jobStore, id) => admissions[id] = 0

\* a delivery has been admitted MaxAttempts times and has failed each time;
\* a further isDuplicate call on it has been rejected
C39_Witness ==
  \E c \in Callers :
    /\ pc[c] = "returning"
    /\ ret[c]
    /\ admissions[job[c]] = MaxAttempts
    /\ Has(jobStore, job[c])
    /\ jobStore[job[c]].status = "failed"
    /\ jobStore[job[c]].attempts = MaxAttempts
    /\ now - jobStore[job[c]].updatedAt >= RetryDelay

====
